---- MODULE Spec2Model ----
(***************************************************************************)
(* Model of pdf_parser.py: extract_karaoke_data (per-page extraction of    *)
(* the song table), save_to_sqlite (load into the karaoke_songs table)     *)
(* and main (extract, load, write the summary).                            *)
(*                                                                         *)
(* Text is a sequence of one-character strings.  A cell of an extracted    *)
(* table is [null, text]: null models NaN/None, the missing value of       *)
(* pandas.  A table (a DataFrame read with header=None) is [ncols, rows],  *)
(* rows being sequences of ncols cells.  The value None a reader may       *)
(* return in place of a DataFrame is NoneFrame.                            *)
(***************************************************************************)
EXTENDS Integers, Sequences, FiniteSets, TLC

VARIABLES
    pc,             \* position of main / of the loader harness
    start_page,     \* extract_karaoke_data parameter
    end_page,       \* extract_karaoke_data parameter; NoEndPage models None
    page_num,       \* loop variable of line 46: the page processed last
    read_result,    \* history: outcome of the last tabula.read_pdf of line 51
    all_dataframes, \* line 26
    failed_pages,   \* line 27
    attempts,       \* history: pages handed to tabula.read_pdf at line 51
    df,             \* the frame returned at line 130 / given to save_to_sqlite
    db,             \* the karaoke_songs table of the destination database
    conn,           \* sqlite3 connection of line 141: "none", "open", "closed"
    raised,         \* exception that left the last operation: "none", ...
    summary,        \* extraction_summary.txt written at lines 193-195
    loader_calls,   \* history: number of calls of save_to_sqlite
    counts          \* history: COUNT(*) read by each successful call in a row

vars == <<pc, start_page, end_page, page_num, read_result, all_dataframes,
          failed_pages, attempts, df, db, conn, raised, summary,
          loader_calls, counts>>

---------------------------------------------------------------------------
(* Bounds of the model *)

MaxPage == 2        \* pages are numbered 1..MaxPage
MaxRows == 2        \* rows of a table the reader returns
MaxLoadRows == 3    \* rows of a frame given directly to the loader
MaxRuns == 3        \* calls of save_to_sqlite in the loader harness

(* Program constants *)

ExpectedCols == 5   \* line 75

ColumnNames == <<"Interprete", "Cod", "Titulo", "Inicio da letra", "Idioma">>

FieldNames == {ColumnNames[i] : i \in 1..Len(ColumnNames)} \cup {"Page"}

ColIndex(name) == CHOOSE i \in 1..Len(ColumnNames) : ColumnNames[i] = name

NoEndPage == 0      \* end_page=None of line 20

\* Stand-in for the hardcoded page count of lines 39 and 43 (316 in the
\* source): the number of pages of the modelled document.
FallbackEndPage == MaxPage

---------------------------------------------------------------------------
(* Text *)

Whitespace == {" ", "\t", "\n"}

RECURSIVE LStrip(_)
LStrip(s) ==
    IF s = <<>> THEN s
    ELSE IF Head(s) \in Whitespace THEN LStrip(Tail(s)) ELSE s

RECURSIVE RStrip(_)
RStrip(s) ==
    IF s = <<>> THEN s
    ELSE IF s[Len(s)] \in Whitespace THEN RStrip(SubSeq(s, 1, Len(s) - 1)) ELSE s

\* str.strip() of line 94
StripLeftOnly(s) == LStrip(s)

Strip(s) == RStrip(LStrip(s))

\* Python's `needle in hay` for text
Contains(hay, needle) ==
    \E i \in 1..(Len(hay) - Len(needle) + 1) :
        SubSeq(hay, i, i + Len(needle) - 1) = needle

Txt(s) == [null |-> FALSE, text |-> s]

NaN == [null |-> TRUE, text |-> <<>>]

NoneFrame == [none |-> TRUE]

---------------------------------------------------------------------------
(* What the table reader may hand back for a page *)

Interprete == <<"I", "n", "t", "e", "r", "p", "r", "e", "t", "e">>

Cod == <<"C", "o", "d">>

RowTemplates == {"hdr", "song"}

\* Cell i of a row of each kind:
\*   hdr   the header row of the catalogue
\*   song  a song with padded, blank and missing cells, and with "Cod" only
\*         beyond the fifth column
TemplateCell(tpl, i) ==
    CASE tpl = "hdr" ->
            IF i = 1 THEN Txt(Interprete)
            ELSE IF i = 2 THEN Txt(Cod)
            ELSE Txt(<<"h">>)
      [] tpl = "song" ->
            IF i = 1 THEN Txt(<<" ", "x", " ", "y", "\t">>)
            ELSE IF i = 2 THEN Txt(<<"\n", "3">>)
            ELSE IF i = 3 THEN Txt(<<"z">>)
            ELSE IF i = 4 THEN Txt(<<" ", " ">>)
            ELSE IF i = 5 THEN NaN
            ELSE Txt(Cod)

TemplateRow(tpl, n) == [i \in 1..n |-> TemplateCell(tpl, i)]

RECURSIVE SeqsUpTo(_, _)
SeqsUpTo(S, n) ==
    IF n = 0 THEN {<<>>}
    ELSE LET shorter == SeqsUpTo(S, n - 1)
         IN shorter \cup {Append(q, x) : q \in shorter, x \in S}

MkTable(n, tpls) ==
    [ncols |-> n, rows |-> [k \in 1..Len(tpls) |-> TemplateRow(tpls[k], n)]]

ColCounts == (ExpectedCols - 1)..(ExpectedCols + 1)

Tables ==
    {MkTable(n, tpls) : n \in ColCounts, tpls \in SeqsUpTo(RowTemplates, MaxRows)}

\* A second table of a page: the reader is called with multiple_tables=False
\* (line 54) and the loop of line 67 takes whatever list comes back.
ExtraTables ==
    {MkTable(ExpectedCols, <<>>), MkTable(ExpectedCols, <<"song">>)}

TableLists ==
    {<<>>} \cup {<<t>> : t \in Tables}
           \cup {<<t, u>> : t \in Tables, u \in ExtraTables}

\* Outcomes of tabula.read_pdf at lines 51-62: an exception, None, a bare
\* DataFrame, or a list of DataFrames.
ReadOutcomes ==
    {[kind |-> "raise", value |-> <<>>], [kind |-> "none", value |-> NoneFrame]}
        \cup {[kind |-> "frame", value |-> t] : t \in ExtraTables}
        \cup {[kind |-> "list", value |-> l] : l \in TableLists}

NotRead == [kind |-> "unread", value |-> <<>>]

---------------------------------------------------------------------------
(* extract_karaoke_data: one table *)

\* str(cell) inside str(Series): a missing value prints as NaN
CellRepr(c) == IF c.null THEN <<"N", "a", "N">> ELSE c.text

SeriesFooter ==
    <<"N", "a", "m", "e", ":", " ", "0", ",", " ",
      "d", "t", "y", "p", "e", ":", " ", "o", "b", "j", "e", "c", "t">>

\* str(table.iloc[0]) of line 85: one line per column (label, gap, value),
\* then the Name/dtype footer.  pandas abbreviates a value longer than its
\* display width; the cells drawn here are shorter and print in full.
RECURSIVE SeriesLines(_, _)
SeriesLines(row, i) ==
    IF i > Len(row) THEN <<>>
    ELSE <<ToString(i - 1), " ", " ", " ", " ">> \o CellRepr(row[i]) \o <<"\n">>
             \o SeriesLines(row, i + 1)

StrSeries(row) == SeriesLines(row, 1) \o SeriesFooter

\* DataFrame.empty of line 69: some axis has length 0
IsEmpty(table) == table.ncols = 0 \/ Len(table.rows) = 0

\* table.iloc[:, :5] of line 78
TakeFirstColumns(table) ==
    [ncols |-> IF table.ncols < ExpectedCols THEN table.ncols ELSE ExpectedCols,
     rows  |-> [k \in 1..Len(table.rows) |->
                   SubSeq(table.rows[k], 1,
                          IF table.ncols < ExpectedCols THEN table.ncols
                          ELSE ExpectedCols)]]

\* the condition of line 85
HasHeader(row) ==
    Contains(StrSeries(row), Interprete) \/ Contains(StrSeries(row), Cod)

\* lines 85-86: table.iloc[1:] when the first row looks like the header
DropAnyHeaderRow(table) ==
    [table EXCEPT !.rows =
        LET keep == {k \in 1..Len(table.rows) : ~HasHeader(table.rows[k])}
            RECURSIVE Sel(_)
            Sel(k) == IF k > Len(table.rows) THEN <<>>
                      ELSE IF k \in keep THEN <<table.rows[k]>> \o Sel(k + 1)
                      ELSE Sel(k + 1)
        IN Sel(1)]

DropHeader(table) ==
    IF HasHeader(table.rows[1])
    THEN [table EXCEPT !.rows = Tail(table.rows)]
    ELSE table

\* fillna('') of line 92
FillNa(c) == IF c.null THEN Txt(<<>>) ELSE c

\* astype(str) of line 94: a missing value becomes the text nan
AsTypeStr(c) == IF c.null THEN Txt(<<"n", "a", "n">>) ELSE c

\* .str.strip() of line 94
StrStrip(c) == [c EXCEPT !.text = Strip(c.text)]

\* lines 92-94 on one cell
CleanCell(c) == StrStrip(AsTypeStr(FillNa(c)))

\* lines 89-97 on one row: the five names, the cleaned cells, the page
NamedRow(cells, page) ==
    [name \in FieldNames |->
        IF name = "Page" THEN page ELSE CleanCell(cells[ColIndex(name)])]

CleanFrame(table, page) ==
    [k \in 1..Len(table.rows) |-> NamedRow(table.rows[k], page)]

\* The accumulators of lines 26-27, threaded through the loops
Acc(frames, failed) == [all_dataframes |-> frames, failed_pages |-> failed]

MarkFailed(st, page) ==
    [st EXCEPT !.failed_pages = Append(st.failed_pages, page)]

\* lines 70-72
EmptyTable(st, page) == MarkFailed(st, page)

\* lines 80-82
SkipWrongColumns(st, page) == st

WrongColumns(st, page) == MarkFailed(st, page)

\* lines 104-105
NoValidData(st, page) == MarkFailed(st, page)

\* lines 107-109
TableError(st, page) == MarkFailed(st, page)

\* lines 111-113
PageError(st, page) == MarkFailed(st, page)

\* lines 100-102
Accept(st, frame) ==
    [st EXCEPT !.all_dataframes = Append(st.all_dataframes, frame)]

\* lines 68-109: the body of `for table in tables`
ProcessTable(st, table, page) ==
    IF table = NoneFrame THEN TableError(st, page)    \* None has no .empty
    ELSE IF IsEmpty(table) THEN EmptyTable(st, page)
    ELSE IF table.ncols # ExpectedCols /\ ~(table.ncols > ExpectedCols)
         THEN WrongColumns(st, page)
    ELSE LET fixed == IF table.ncols # ExpectedCols
                      THEN TakeFirstColumns(table) ELSE table
             body  == DropHeader(fixed)
         IN IF body.ncols # Len(ColumnNames)
            THEN TableError(st, page)                 \* line 89 raises
            ELSE LET frame == CleanFrame(body, page)
                 IN IF Len(frame) > 0 THEN Accept(st, frame)
                    ELSE NoValidData(st, page)

---------------------------------------------------------------------------
(* extract_karaoke_data: one page, and the end of the loop *)

\* lines 64-65: a result that is not a list is wrapped into one
AsList(outcome) ==
    IF outcome.kind = "list" THEN outcome.value ELSE <<outcome.value>>

\* lines 67-109: `for table in tables`
RECURSIVE ProcessTables(_, _, _, _)
ProcessTables(st, tbls, i, page) ==
    IF i > Len(tbls) THEN st
    ELSE ProcessTables(ProcessTable(st, tbls[i], page), tbls, i + 1, page)

\* lines 49-113: the body of `for page_num in range(...)`
ProcessPageBody(st, outcome, page) ==
    IF outcome.kind = "raise" THEN PageError(st, page)
    ELSE ProcessTables(st, AsList(outcome), 1, page)

\* range(start_page, end_page + 1) of line 46 ends with end_page
LastPageExclusive(last) == last - 1

LastPage(last) == last

RECURSIVE Concat(_)
\* pd.concat(all_dataframes, ignore_index=True) of line 119
Concat(frames) ==
    IF frames = <<>> THEN <<>> ELSE Head(frames) \o Concat(Tail(frames))

\* the test of line 115 left out
NoDataNever(frames) == FALSE

\* line 115: `if not all_dataframes`
NoData(frames) == frames = <<>>

---------------------------------------------------------------------------
(* save_to_sqlite *)

NoTable == [exists |-> FALSE, schema |-> "none", rows |-> <<>>]

\* CREATE TABLE of lines 145-156: NOT NULL artist/code/title, UNIQUE(code)
DeclaredTable == [exists |-> TRUE, schema |-> "declared", rows |-> <<>>]

\* the table pandas creates from the frame's own columns (lines 159-172):
\* Interprete, Cod, Titulo, Inicio da letra, Idioma, Page; no constraint
PandasTable(rows) == [exists |-> TRUE, schema |-> "pandas", rows |-> rows]

\* points of save_to_sqlite at which the store may fail
Faults == {"none", "connect", "create", "drop", "insert", "count"}

\* lines 145-156: CREATE TABLE IF NOT EXISTS
CreateTable(store) == IF store.exists THEN store ELSE DeclaredTable

\* to_sql(..., if_exists='append'): rows are added to the table found.  The
\* declared table has no column of the frame's names, so the insert fails.
ToSqlAppend(store, frame, fault) ==
    IF fault = "drop" \/ fault = "insert" \/ store.schema = "declared"
    THEN [db |-> store, ok |-> FALSE]
    ELSE [db |-> PandasTable(store.rows \o frame), ok |-> TRUE]

\* lines 159-172: to_sql(..., if_exists='replace') drops the table found,
\* creates one from the frame and inserts the rows in one transaction
ToSqlReplace(store, frame, fault) ==
    IF fault = "drop" THEN [db |-> store, ok |-> FALSE]
    ELSE IF fault = "insert" THEN [db |-> PandasTable(<<>>), ok |-> FALSE]
    ELSE [db |-> PandasTable(frame), ok |-> TRUE]

\* line 175: SELECT COUNT(*)
RowCount(store) == Len(store.rows)

\* lines 143-176: the body of the try.  failed: an exception left it.
TryBody(frame, store, fault) ==
    IF fault = "create" THEN [db |-> store, failed |-> TRUE, count |-> -1]
    ELSE LET created == CreateTable(store)
             loaded  == ToSqlReplace(created, frame, fault)
         IN IF ~loaded.ok
            THEN [db |-> loaded.db, failed |-> TRUE, count |-> -1]
            ELSE IF fault = "count"
            THEN [db |-> loaded.db, failed |-> TRUE, count |-> -1]
            ELSE [db |-> loaded.db, failed |-> FALSE,
                  count |-> RowCount(loaded.db)]

\* an except clause that logs and does not raise
Swallow(failed) == FALSE

\* lines 178-180: the error is logged and raised again
Reraise(failed) == failed

\* a close placed at the end of the try instead of in a finally clause
CloseOnSuccessOnly(failed) == IF failed THEN "open" ELSE "closed"

\* lines 181-182: finally: conn.close()
CloseConn(failed) == "closed"

\* lines 132-182, the whole call.  raised: an exception leaves the call;
\* conn: the connection of line 141 afterwards ("none": never opened);
\* count: the value read at line 175.
SaveToSqlite(frame, store, fault) ==
    IF fault = "connect"
    THEN [db |-> store, raised |-> TRUE, conn |-> "none", count |-> -1]
    ELSE LET r == TryBody(frame, store, fault)
         IN [db |-> r.db, raised |-> Reraise(r.failed),
             conn |-> CloseConn(r.failed), count |-> r.count]

\* rows a store may hold from an earlier run
OldRow(tpl) == NamedRow(TemplateRow(tpl, ExpectedCols), 1)

InitialStores ==
    {NoTable, DeclaredTable, PandasTable(<<OldRow("song")>>),
     PandasTable(<<OldRow("hdr"), OldRow("song")>>)}

---------------------------------------------------------------------------
(* main: extract, load, summary *)

NoSummary == <<>>

Init ==
    /\ pc = "extract"
    /\ start_page \in 1..MaxPage
    /\ end_page \in {NoEndPage} \cup 1..MaxPage
    /\ page_num = 0
    /\ read_result = NotRead
    /\ all_dataframes = <<>>
    /\ failed_pages = <<>>
    /\ attempts = <<>>
    /\ df = <<>>
    /\ db = NoTable
    /\ conn = "none"
    /\ raised = "none"
    /\ summary = NoSummary
    /\ loader_calls = 0
    /\ counts = <<>>

\* lines 24-43: the accumulators; end_page=None becomes the fallback count
\* whether or not the page-count read raises
BeginExtract ==
    /\ pc = "extract"
    /\ pc' = "loop"
    /\ end_page' = IF end_page = NoEndPage THEN FallbackEndPage ELSE end_page
    /\ page_num' = start_page - 1
    /\ UNCHANGED <<start_page, read_result, all_dataframes, failed_pages,
                   attempts, df, db, conn, raised, summary, loader_calls,
                   counts>>

\* lines 46-113: one iteration of the page loop
ProcessPage ==
    /\ pc = "loop"
    /\ page_num < LastPage(end_page)
    /\ \E outcome \in ReadOutcomes :
         LET page == page_num + 1
             st   == ProcessPageBody(Acc(all_dataframes, failed_pages),
                                     outcome, page)
         IN /\ page_num' = page
            /\ attempts' = Append(attempts, page)
            /\ read_result' = outcome
            /\ all_dataframes' = st.all_dataframes
            /\ failed_pages' = st.failed_pages
    /\ UNCHANGED <<pc, start_page, end_page, df, db, conn, raised, summary,
                   loader_calls, counts>>

\* lines 115-116 reached through main: the exception passes lines 197-199
ExtractRaises ==
    /\ pc = "loop"
    /\ ~(page_num < LastPage(end_page))
    /\ NoData(all_dataframes)
    /\ raised' = "nodata"
    /\ pc' = "failed"
    /\ read_result' = NotRead
    /\ UNCHANGED <<start_page, end_page, page_num,
                   all_dataframes, failed_pages, attempts, df, db, conn,
                   summary, loader_calls, counts>>

\* lines 118-130 and line 189: the combined frame is returned to main
ExtractReturns ==
    /\ pc = "loop"
    /\ ~(page_num < LastPage(end_page))
    /\ ~NoData(all_dataframes)
    /\ df' = Concat(all_dataframes)
    /\ pc' = "load"
    /\ read_result' = NotRead
    /\ UNCHANGED <<start_page, end_page, page_num,
                   all_dataframes, failed_pages, attempts, db, conn, raised,
                   summary, loader_calls, counts>>

\* line 190: save_to_sqlite(df, db_path); an exception passes lines 197-199
Load ==
    /\ pc = "load"
    /\ \E fault \in Faults :
         LET r == SaveToSqlite(df, db, fault)
         IN /\ db' = r.db
            /\ conn' = r.conn
            /\ raised' = IF r.raised THEN "store" ELSE "none"
            /\ counts' = IF r.raised THEN <<>> ELSE Append(counts, r.count)
            /\ pc' = IF r.raised THEN "failed" ELSE "summary"
    /\ loader_calls' = loader_calls + 1
    /\ UNCHANGED <<start_page, end_page, page_num, read_result,
                   all_dataframes, failed_pages, attempts, df, summary>>

\* lines 192-195
WriteSummary ==
    /\ pc = "summary"
    /\ summary' = <<[rows |-> Len(df), failed |-> failed_pages]>>
    /\ pc' = "done"
    /\ UNCHANGED <<start_page, end_page, page_num, read_result,
                   all_dataframes, failed_pages, attempts, df, db, conn,
                   raised, loader_calls, counts>>

Next ==
    \/ BeginExtract
    \/ ProcessPage
    \/ ExtractRaises
    \/ ExtractReturns
    \/ Load
    \/ WriteSummary

Spec == Init /\ [][Next]_vars

---------------------------------------------------------------------------
(* The loader alone: save_to_sqlite called again and again with one frame *)

LoaderRows == {OldRow("hdr"), OldRow("song")}

LoaderFrames == SeqsUpTo(LoaderRows, MaxLoadRows)

InitLoader ==
    /\ pc = "loader"
    /\ start_page = 1
    /\ end_page = 1
    /\ page_num = 0
    /\ read_result = NotRead
    /\ all_dataframes = <<>>
    /\ failed_pages = <<>>
    /\ attempts = <<>>
    /\ df \in LoaderFrames
    /\ db \in InitialStores
    /\ conn = "none"
    /\ raised = "none"
    /\ summary = NoSummary
    /\ loader_calls = 0
    /\ counts = <<>>

\* lines 132-182: one call of save_to_sqlite(df, db_path)
LoaderRun ==
    /\ pc = "loader"
    /\ loader_calls < MaxRuns
    /\ \E fault \in Faults :
         LET r == SaveToSqlite(df, db, fault)
         IN /\ db' = r.db
            /\ conn' = r.conn
            /\ raised' = IF r.raised THEN "store" ELSE "none"
            /\ counts' = IF r.raised THEN <<>> ELSE Append(counts, r.count)
    /\ loader_calls' = loader_calls + 1
    /\ UNCHANGED <<pc, start_page, end_page, page_num, read_result,
                   all_dataframes, failed_pages, attempts, df, summary>>

NextLoader == LoaderRun

SpecLoader == InitLoader /\ [][NextLoader]_vars

---------------------------------------------------------------------------
(* Vocabulary of the properties *)

Codes(rows) == {rows[k]["Cod"].text : k \in DOMAIN rows}

UniqueCodes(rows) == Cardinality(Codes(rows)) = Len(rows)

Elements(q) == {q[k] : k \in DOMAIN q}

IsSourcePage(r, p) == r["Page"] = p

\* rows accumulated so far that came from page p
RowsOfPage(p) ==
    LET all == Concat(all_dataframes)
        RECURSIVE From(_)
        From(k) == IF k > Len(all) THEN <<>>
                   ELSE IF IsSourcePage(all[k], p) THEN <<all[k]>> \o From(k + 1)
                   ELSE From(k + 1)
    IN From(1)

SourcePages(rows) == {rows[k]["Page"] : k \in DOMAIN rows}

\* the page loop has just handled page_num and the reader did not raise
PageJustRead == pc = "loop" /\ read_result.kind \in {"none", "frame", "list"}

LastTables == AsList(read_result)

\* the reader gave exactly one DataFrame for the page
OneTable ==
    /\ pc = "loop"
    /\ read_result.kind \in {"frame", "list"}
    /\ Len(LastTables) = 1

RecoverableCols(t) == IF t.ncols > ExpectedCols THEN ExpectedCols ELSE t.ncols

Trimmed(text) ==
    text = <<>> \/ (Head(text) \notin Whitespace /\ text[Len(text)] \notin Whitespace)

RECURSIVE NonBlank(_)
\* the characters of a text other than whitespace, in order
NonBlank(text) ==
    IF text = <<>> THEN <<>>
    ELSE IF Head(text) \in Whitespace THEN NonBlank(Tail(text))
    ELSE <<Head(text)>> \o NonBlank(Tail(text))

\* a returned row shows the cells of a table row: same characters apart from
\* whitespace, nothing for a missing value
ShowsRow(r, cells) ==
    \A i \in 1..ExpectedCols :
        NonBlank(r[ColumnNames[i]].text)
            = IF cells[i].null THEN <<>> ELSE NonBlank(cells[i].text)

HasToken(c) == ~c.null /\ (Contains(c.text, Cod) \/ Contains(c.text, Interprete))

\* the header token stands in some cell of the row
TokenInRow(cells) == \E i \in DOMAIN cells : HasToken(cells[i])

\* the header token stands in one of the first five cells of the row
TokenInKeptColumns(cells) ==
    \E i \in DOMAIN cells : i <= ExpectedCols /\ HasToken(cells[i])

PagesOfRange ==
    [i \in 1..(IF end_page >= start_page THEN end_page - start_page + 1 ELSE 0)
        |-> start_page + i - 1]

ExtractionOver == pc \in {"load", "summary", "done", "failed"}

---------------------------------------------------------------------------
(* Properties *)

\* C1: when save_to_sqlite is given rows of which two have the same code,
\* the call fails with a constraint violation, and the table never holds two
\* rows with the same code.
C1_UniqueCodeEnforced ==
    /\ (loader_calls > 0 /\ ~UniqueCodes(df)) => raised = "store"
    /\ UniqueCodes(db.rows)

\* C2: successive successful loads of the same rows all read the same row
\* count, the number of rows given, and the table holds exactly that many
\* rows whatever it held before.
C2_LoadIdempotent ==
    /\ \A i \in DOMAIN counts : counts[i] = counts[1]
    /\ counts # <<>> =>
          /\ counts[Len(counts)] = RowCount(db)
          /\ RowCount(db) = Len(df)

C2_Witness ==
    /\ Len(counts) >= 2
    /\ Len(df) >= 1
    /\ loader_calls = Len(counts)

\* C3: a page all of whose tables have, after truncation to five columns, a
\* column count other than five is in failed_pages and has no row in the
\* result.
C3_WrongColumnCountFails ==
    (PageJustRead /\ read_result.kind # "none" /\ LastTables # <<>>
        /\ \A k \in DOMAIN LastTables :
              RecoverableCols(LastTables[k]) # ExpectedCols)
    => /\ page_num \in Elements(failed_pages)
       /\ RowsOfPage(page_num) = <<>>

C3_Witness ==
    /\ OneTable
    /\ LastTables[1].ncols < ExpectedCols
    /\ Len(LastTables[1].rows) > 0
    /\ page_num \in Elements(failed_pages)
    /\ all_dataframes # <<>>

\* C4: whatever the pages' outcomes, the pages handed to the reader are the
\* pages start_page..page_num so far, and start_page..end_page once the
\* extraction is over: each once, in ascending order.
C4_EveryPageAttemptedOnce ==
    /\ pc = "loop" =>
          attempts = [i \in 1..(page_num - start_page + 1) |-> start_page + i - 1]
    /\ ExtractionOver => attempts = PagesOfRange

C4_Witness ==
    /\ ExtractionOver
    /\ Len(attempts) >= 2
    /\ Len(failed_pages) >= 1
    /\ failed_pages[1] = start_page
    /\ df # <<>>

\* C5: the extractor raises "no data" exactly when no row was accumulated
\* after the last page, and then the loader was never called and no summary
\* was written.
C5_NoDataIsFatalBeforeLoad ==
    /\ (ExtractionOver /\ Concat(all_dataframes) = <<>>) =>
          pc = "failed" /\ raised = "nodata"
    /\ raised = "nodata" =>
          /\ Concat(all_dataframes) = <<>>
          /\ loader_calls = 0
          /\ conn = "none"
          /\ summary = NoSummary

C5_Witness ==
    /\ raised = "nodata"
    /\ Len(failed_pages) >= 2
    /\ Elements(attempts) \subseteq Elements(failed_pages)

\* C6: main ends in failure when no row was extracted or a store operation
\* failed, and writes no summary then; otherwise, failed pages or not, it
\* ends well with the summary of the row count and the failed pages, the
\* rows being in the store.
C6_RunOutcome ==
    /\ pc = "failed" =>
          /\ raised \in {"nodata", "store"}
          /\ summary = NoSummary
          /\ raised = "nodata" <=> df = <<>>
          /\ raised = "store" <=> loader_calls = 1
    /\ pc \in {"summary", "done"} =>
          /\ raised = "none"
          /\ df # <<>>
          /\ db = PandasTable(df)
          /\ counts = <<Len(df)>>
          /\ conn = "closed"
    /\ pc = "done" =>
          summary = <<[rows |-> Len(df), failed |-> failed_pages]>>
    /\ pc # "done" => summary = NoSummary

C6_Witness ==
    /\ pc = "done"
    /\ failed_pages # <<>>
    /\ summary # NoSummary

\* C7: every field of every accumulated or returned row is a string, not a
\* missing value, with no whitespace at either end; where the page gave one
\* table, a missing value of it shows as the empty string.
C7_FieldsTrimmedNeverNull ==
    /\ \A r \in Elements(Concat(all_dataframes)) \cup Elements(df) :
          \A i \in 1..ExpectedCols :
              /\ ~r[ColumnNames[i]].null
              /\ Trimmed(r[ColumnNames[i]].text)
    /\ OneTable =>
          LET got  == RowsOfPage(page_num)
              rows == LastTables[1].rows
              skip == Len(rows) - Len(got)
          IN \A k \in DOMAIN got : \A i \in 1..ExpectedCols :
                rows[k + skip][i].null => got[k][ColumnNames[i]].text = <<>>

C7_Witness ==
    /\ OneTable
    /\ RowsOfPage(page_num) # <<>>
    /\ \E k \in DOMAIN LastTables[1].rows : \E i \in 1..ExpectedCols :
          /\ LastTables[1].rows[k][i].null
          /\ ~Trimmed(LastTables[1].rows[k][1].text)

\* C8 as stated: a first row holding the header token in any of its cells
\* is dropped: the page's rows are the table's later rows; a table of that
\* row alone makes the page a failed page; no other row is dropped.
C8_HeaderRowDropped ==
    (OneTable /\ Len(LastTables[1].rows) > 0
        /\ LastTables[1].ncols >= ExpectedCols)
    => LET rows == LastTables[1].rows
           got  == RowsOfPage(page_num)
       IN IF TokenInRow(rows[1])
          THEN /\ Len(got) = Len(rows) - 1
               /\ \A k \in DOMAIN got : ShowsRow(got[k], rows[k + 1])
               /\ Len(rows) = 1 => page_num \in Elements(failed_pages)
          ELSE /\ Len(got) = Len(rows)
               /\ \A k \in DOMAIN got : ShowsRow(got[k], rows[k])

\* C8 amended: the same, the token being looked for in the first five cells
\* of the first row, the ones kept when a wider table is cut to five columns
\* (line 78 runs before the test of line 85).
C8_HeaderRowDroppedKeptColumns ==
    (OneTable /\ Len(LastTables[1].rows) > 0
        /\ LastTables[1].ncols >= ExpectedCols)
    => LET rows == LastTables[1].rows
           got  == RowsOfPage(page_num)
       IN IF TokenInKeptColumns(rows[1])
          THEN /\ Len(got) = Len(rows) - 1
               /\ \A k \in DOMAIN got : ShowsRow(got[k], rows[k + 1])
               /\ Len(rows) = 1 => page_num \in Elements(failed_pages)
          ELSE /\ Len(got) = Len(rows)
               /\ \A k \in DOMAIN got : ShowsRow(got[k], rows[k])

C8_Witness ==
    /\ OneTable
    /\ Len(LastTables[1].rows) >= 2
    /\ LastTables[1].ncols >= ExpectedCols
    /\ TokenInKeptColumns(LastTables[1].rows[1])
    /\ TokenInKeptColumns(LastTables[1].rows[2])
    /\ Len(RowsOfPage(page_num)) = 1

\* C9: after any call of save_to_sqlite that opened the connection, failed
\* or not, the connection is closed.
C9_ConnectionReleased ==
    loader_calls > 0 => conn \in {"none", "closed"}

C9_Witness ==
    /\ loader_calls > 0
    /\ raised = "store"
    /\ conn = "closed"

\* C10: when the extractor returns, every page of the range is in
\* failed_pages or the source page of a returned row, never both, and
\* failed_pages lists no page twice.
C10_FailedAndSourcePagesPartition ==
    pc \in {"load", "summary", "done"} =>
        /\ \A p \in Elements(PagesOfRange) :
              (p \in Elements(failed_pages)) # (p \in SourcePages(df))
        /\ Cardinality(Elements(failed_pages)) = Len(failed_pages)

====
